---- MODULE Spec2Model ----
(***************************************************************************)
(* Model of svg-resize.py: parse_length and resize_svg.                    *)
(*                                                                         *)
(* Python floats are modelled as exact rationals [n, d] in lowest terms.   *)
(* Attribute and option strings are modelled as sequences of characters    *)
(* ("raw" texts); a string produced by '{}'.format(float) is a "fmt" text  *)
(* that carries the formatted float and the characters that follow it.     *)
(***************************************************************************)
EXTENDS Integers, Sequences, FiniteSets, TLC

(***************************************************************************)
(* Exact rational arithmetic (the float operators of the source).          *)
(***************************************************************************)
Abs(x) == IF x < 0 THEN -x ELSE x

\* F applied to the value of e (an assignment to a local of the source)
With(e, F(_)) == CHOOSE r \in {F(v) : v \in {e}} : TRUE

gcd[a \in Nat, b \in Nat] == IF b = 0 THEN a ELSE gcd[b, a % b]

GCD(a, b) == gcd[a, b]

Rat(n, d) ==
    LET s == IF d < 0 THEN -1 ELSE 1
        g == GCD(Abs(n), Abs(d))
    IN  [n |-> s * (n \div g), d |-> Abs(d) \div g]

Zero == [n |-> 0, d |-> 1]

FromInt(i) == [n |-> i, d |-> 1]

Neg(a) == [n |-> -a.n, d |-> a.d]

Add(a, b) ==
    LET g == GCD(a.d, b.d)
    IN  Rat(a.n * (b.d \div g) + b.n * (a.d \div g), (a.d \div g) * b.d)

Sub(a, b) == Add(a, Neg(b))

Mul(a, b) ==
    IF a.n = 0 \/ b.n = 0 THEN Zero
    ELSE LET g1 == GCD(Abs(a.n), b.d)
             g2 == GCD(Abs(b.n), a.d)
         IN  [n |-> (a.n \div g1) * (b.n \div g2), d |-> (a.d \div g2) * (b.d \div g1)]

Inv(a) == IF a.n < 0 THEN [n |-> -a.d, d |-> -a.n] ELSE [n |-> a.d, d |-> a.n]

Div(a, b) == Mul(a, Inv(b))

Less(a, b) == Sub(a, b).n < 0

Leq(a, b) == Sub(a, b).n <= 0

IsPos(a) == a.n > 0

IsNeg(a) == a.n < 0

IsZero(a) == a.n = 0

RatAbs(a) == [n |-> Abs(a.n), d |-> a.d]

RatMin(a, b) == IF Less(b, a) THEN b ELSE a

RatMax(a, b) == IF Less(a, b) THEN b ELSE a

\* a * b > 0.0, decided from the signs
ProductIsPos(a, b) == (IsPos(a) /\ IsPos(b)) \/ (IsNeg(a) /\ IsNeg(b))

Two == FromInt(2)

Hundred == FromInt(100)

(***************************************************************************)
(* Texts.                                                                  *)
(***************************************************************************)
Raw(cs) == [kind |-> "raw", chars |-> cs, val |-> Zero]

\* None (the option is not given / svg.get found nothing without a default)
NoneText == [kind |-> "none", chars |-> <<>>, val |-> Zero]

\* the key is not in the options dictionary
Missing == [kind |-> "missing", chars |-> <<>>, val |-> Zero]

\* '{}<sfx>'.format(v): the repr of the float v followed by the characters sfx
Format(v, sfx) == [kind |-> "fmt", chars |-> sfx, val |-> v]

\* Python truth value of a string or None
Truthy(t) ==
    CASE t.kind = "raw" -> t.chars # <<>>
      [] t.kind = "fmt" -> TRUE
      [] OTHER -> FALSE

Digits == {"0", "1", "2", "3", "4", "5", "6", "7", "8", "9"}

DigitVal(c) ==
    CASE c = "0" -> 0 [] c = "1" -> 1 [] c = "2" -> 2 [] c = "3" -> 3
      [] c = "4" -> 4 [] c = "5" -> 5 [] c = "6" -> 6 [] c = "7" -> 7
      [] c = "8" -> 8 [] c = "9" -> 9

\* \s of the regular expressions, as far as the texts of the model use it
Whitespace == {" ", "\t"}

\* first index >= i of cs whose character is not in class (Len(cs)+1 if none)
RECURSIVE SkipClass(_, _, _)
SkipClass(cs, i, class) ==
    IF i <= Len(cs) /\ cs[i] \in class THEN SkipClass(cs, i + 1, class) ELSE i

\* the value of the decimal digits cs[i..j-1]
RECURSIVE IntOf(_, _, _)
IntOf(cs, i, j) ==
    IF j <= i THEN 0 ELSE 10 * IntOf(cs, i, j - 1) + DigitVal(cs[j - 1])

RECURSIVE Pow10(_)
Pow10(k) == IF k <= 0 THEN 1 ELSE 10 * Pow10(k - 1)

UnitNames == {<<"p", "x">>, <<"i", "n">>, <<"c", "m">>, <<"m", "m">>, <<"p", "t">>, <<"p", "c">>}

\* group(2) of the match when the text after the number and the blanks starts at m
UnitAt(cs, m) ==
    IF m + 1 <= Len(cs) /\ <<cs[m], cs[m + 1]>> \in UnitNames
    THEN <<cs[m], cs[m + 1]>>
    ELSE IF m <= Len(cs) /\ cs[m] = "%" THEN <<"%">> ELSE <<>>

\* re.match(r'^\s*(-?\d+(?:\.\d+)?)\s*(px|in|cm|mm|pt|pc|%)?', value):
\* matched, group(1) as a number, group(2) (<<>> for None), and the index after group(1)
LengthMatch(cs) ==
    With(SkipClass(cs, 1, Whitespace), LAMBDA i0 :
    With(IF i0 <= Len(cs) /\ cs[i0] = "-" THEN i0 + 1 ELSE i0, LAMBDA i1 :
    With(SkipClass(cs, i1, Digits), LAMBDA j :
    With(IF j + 1 <= Len(cs) /\ cs[j] = "." /\ cs[j + 1] \in Digits
         THEN SkipClass(cs, j + 1, Digits) ELSE j, LAMBDA k :
    With(Add(FromInt(IntOf(cs, i1, j)),
             IF k > j THEN Rat(IntOf(cs, j + 1, k), Pow10(k - j - 1)) ELSE Zero), LAMBDA mag :
        [matched |-> j > i1,
         num |-> IF i1 > i0 THEN Neg(mag) ELSE mag,
         units |-> UnitAt(cs, SkipClass(cs, k, Whitespace)),
         numEnd |-> k])))))

\* x / 10^e with 1 <= |x / 10^e| < 10, for 0 < |x| < 1
RECURSIVE Mantissa(_)
Mantissa(x) == IF Less(RatAbs(x), FromInt(1)) THEN Mantissa(Mul(x, FromInt(10))) ELSE x

\* repr(float) uses exponent notation ("5e-05") below 1e-4
ExpNotation(x) == ~IsZero(x) /\ Abs(x.n) <= (x.d - 1) \div 10000

PxPerPt == Rat(125, 100)

PxPerPc == FromInt(15)

PxPerIn == FromInt(90)

PxPerMm == Rat(3543307, 1000000)

PxPerCm == Rat(3543307, 100000)

Value(v) == [ok |-> TRUE, err |-> "", v |-> v]

Raise(e) == [ok |-> FALSE, err |-> e, v |-> Zero]

\* lines 35-50 of parse_length
ConvertUnits(num, units) ==
    CASE units = <<"p", "x">> -> Value(num)
      [] units = <<"p", "t">> -> Value(Mul(num, PxPerPt))
      [] units = <<"p", "c">> -> Value(Mul(num, PxPerPc))
      [] units = <<"i", "n">> -> Value(Mul(num, PxPerIn))
      [] units = <<"m", "m">> -> Value(Mul(num, PxPerMm))
      [] units = <<"c", "m">> -> Value(Mul(num, PxPerCm))
      [] units = <<"%">> -> Value(Div(Neg(num), Hundred))
      [] OTHER -> Raise("Unknown length units")

parse_length(value, def_units) ==
    IF ~Truthy(value) THEN Value(Zero)
    ELSE IF value.kind = "fmt"
    THEN \* the text is repr(value.val) followed by value.chars
         IF ExpNotation(value.val)
         THEN ConvertUnits(Mantissa(value.val), def_units)
         ELSE With(UnitAt(value.chars, SkipClass(value.chars, 1, Whitespace)), LAMBDA u :
              ConvertUnits(value.val, IF u = <<>> THEN def_units ELSE u))
    ELSE With(LengthMatch(value.chars), LAMBDA parts :
         IF ~parts.matched THEN Raise("Unknown length format")
         ELSE ConvertUnits(parts.num, IF parts.units = <<>> THEN def_units ELSE parts.units))

(***************************************************************************)
(* The document and the options.                                           *)
(***************************************************************************)
\* the attribute is not among svg.keys()
Absent == [kind |-> "absent", chars |-> <<>>, val |-> Zero]

\* the viewBox attribute: absent, a string, or the four floats written by line 133
NoViewBox == [kind |-> "absent", chars |-> <<>>, vals |-> <<>>]

RawViewBox(cs) == [kind |-> "raw", chars |-> cs, vals |-> <<>>]

FormatViewBox(vs) == [kind |-> "fmt", chars |-> <<>>, vals |-> vs]

Separators == {" ", ",", "\t"}

\* str.strip()
RECURSIVE RStrip(_)
RStrip(cs) ==
    IF cs # <<>> /\ cs[Len(cs)] \in Whitespace
    THEN With(SubSeq(cs, 1, Len(cs) - 1), LAMBDA front : RStrip(front))
    ELSE cs

Strip(cs) == With(RStrip(cs), LAMBDA r : SubSeq(r, SkipClass(r, 1, Whitespace), Len(r)))

\* re.split('[ ,\t]+', cs)
RECURSIVE SplitFrom(_, _, _, _)
SplitFrom(cs, i, cur, acc) ==
    IF i > Len(cs) THEN Append(acc, cur)
    ELSE IF cs[i] \in Separators
         THEN With(SkipClass(cs, i, Separators), LAMBDA j :
              With(Append(acc, cur), LAMBDA done : SplitFrom(cs, j, <<>>, done)))
         ELSE With(i + 1, LAMBDA j :
              With(Append(cur, cs[i]), LAMBDA more : SplitFrom(cs, j, more, acc)))

Split(cs) == SplitFrom(cs, 1, <<>>, <<>>)

\* re.split('[ ,\t]+', svg.get('viewBox', '').strip()), as texts
ViewBoxTokens(vb) ==
    IF vb.kind = "fmt" THEN [i \in 1..Len(vb.vals) |-> Format(vb.vals[i], <<>>)]
    ELSE With(Split(Strip(vb.chars)), LAMBDA ts : [i \in 1..Len(ts) |-> Raw(ts[i])])

\* lines 10-24
prepare_options(o) ==
    [width |-> IF o.width.kind = "missing" THEN NoneText ELSE o.width,
     height |-> IF o.height.kind = "missing" THEN NoneText ELSE o.height,
     longest |-> IF o.longest.kind = "missing" THEN NoneText ELSE o.longest,
     shortest |-> IF o.shortest.kind = "missing" THEN NoneText ELSE o.shortest,
     margin |-> IF o.margin.kind = "missing" THEN Raw(<<"0">>) ELSE o.margin,
     frame |-> o.frame]

\* a local that is None or a float
None == [has |-> FALSE, v |-> Zero]

Some(x) == [has |-> TRUE, v |-> x]

\* Python truth value of None or a float
Nonzero(t) == t.has /\ ~IsZero(t.v)

Geometry(w, h, vb) == [ok |-> TRUE, err |-> "", width |-> w, height |-> h, viewbox |-> vb]

NoGeometryBut(e) == [ok |-> FALSE, err |-> e, width |-> Zero, height |-> Zero, viewbox |-> <<>>]

\* lines 60-66: the viewBox from the parsed tokens p, <<>> for None
ParsedViewBox(p) ==
    IF Len(p) = 4 /\ ProductIsPos(p[3].v, p[4].v)
    THEN <<p[1].v, p[2].v, p[3].v, p[4].v>> ELSE <<>>

\* lines 55-74: the source size and viewBox, or the exception raised
SourceGeometry(s) ==
    IF s.width.kind = "absent" \/ s.height.kind = "absent"
    THEN NoGeometryBut("SVG header must contain width and height attributes")
    ELSE
    With(parse_length(s.width, <<"p", "x">>), LAMBDA w :
    With(parse_length(s.height, <<"p", "x">>), LAMBDA h :
    With(ViewBoxTokens(s.viewBox), LAMBDA toks :
    With([i \in 1..Len(toks) |-> parse_length(toks[i], <<"p", "x">>)], LAMBDA p :
    With(IF Len(p) = 4 THEN {i \in 1..4 : ~p[i].ok} ELSE {}, LAMBDA bad :
    With(IF bad = {} THEN ParsedViewBox(p) ELSE <<>>, LAMBDA vb :
        IF ~w.ok THEN NoGeometryBut(w.err)
        ELSE IF ~h.ok THEN NoGeometryBut(h.err)
        ELSE IF bad # {} THEN NoGeometryBut(p[CHOOSE i \in bad : \A j \in bad : i <= j].err)
        ELSE IF Leq(w.v, Zero) \/ Leq(h.v, Zero)
             THEN IF vb # <<>>
                  THEN Geometry(vb[3], vb[4], vb)
                  ELSE NoGeometryBut("SVG width and height should be in absolute units and non-zero")
             ELSE Geometry(w.v, h.v, IF vb # <<>> THEN vb ELSE <<Zero, Zero, w.v, h.v>>)))))))

Mm == <<"m", "m">>

Targets(m, tw, th) == [ok |-> TRUE, err |-> "", margin |-> m, twidth |-> tw, theight |-> th]

NoTargetsBut(e) == [ok |-> FALSE, err |-> e, margin |-> Zero, twidth |-> None, theight |-> None]

\* parse_length(o[k], 'mm') of an option that is given, 0.0 otherwise
OptionLength(o, k) == IF Truthy(o[k]) THEN parse_length(o[k], Mm) ELSE Value(Zero)

\* the exception of the first call of parse_length that raises, "" if none does
FirstError(results) ==
    With({i \in 1..Len(results) : ~results[i].ok}, LAMBDA bad :
        IF bad = {} THEN "" ELSE results[CHOOSE i \in bad : \A j \in bad : i <= j].err)

\* ReadTargets with the explicit width and height applied last instead of first
ReadTargets_ExplicitLast(o, w, h) ==
    With(parse_length(o.margin, Mm), LAMBDA m :
    With(OptionLength(o, "width"), LAMBDA x :
    With(OptionLength(o, "height"), LAMBDA y :
    With(OptionLength(o, "longest"), LAMBDA l :
    With(OptionLength(o, "shortest"), LAMBDA s :
    With(FirstError(<<m, x, y, l, s>>), LAMBDA e :
    With(Less(h, w), LAMBDA wide :
    With(Less(w, h), LAMBDA high :
    With(IF Truthy(o.longest) /\ wide THEN Some(l.v) ELSE None, LAMBDA tw0 :
    With(IF Truthy(o.longest) /\ ~wide THEN Some(l.v) ELSE None, LAMBDA th0 :
    With(IF Truthy(o.shortest) /\ high THEN Some(s.v) ELSE tw0, LAMBDA tw1 :
    With(IF Truthy(o.shortest) /\ ~high THEN Some(s.v) ELSE th0, LAMBDA th1 :
    With(IF Truthy(o.width) THEN Some(x.v) ELSE tw1, LAMBDA tw2 :
    With(IF Truthy(o.height) THEN Some(y.v) ELSE th1, LAMBDA th2 :
        IF e # "" THEN NoTargetsBut(e) ELSE Targets(m.v, tw2, th2)))))))))))))))

\* lines 77-95: margin and the targets before normalization, or the exception raised
ReadTargets(o, w, h) ==
    With(parse_length(o.margin, Mm), LAMBDA m :
    With(OptionLength(o, "width"), LAMBDA x :
    With(OptionLength(o, "height"), LAMBDA y :
    With(OptionLength(o, "longest"), LAMBDA l :
    With(OptionLength(o, "shortest"), LAMBDA s :
    With(FirstError(<<m, x, y, l, s>>), LAMBDA e :
    With(Less(h, w), LAMBDA wide :
    With(Less(w, h), LAMBDA high :
    With(IF Truthy(o.width) THEN Some(x.v) ELSE None, LAMBDA tw0 :
    With(IF Truthy(o.height) THEN Some(y.v) ELSE None, LAMBDA th0 :
    With(IF Truthy(o.longest) /\ wide THEN Some(l.v) ELSE tw0, LAMBDA tw1 :
    With(IF Truthy(o.longest) /\ ~wide THEN Some(l.v) ELSE th0, LAMBDA th1 :
    With(IF Truthy(o.shortest) /\ high THEN Some(s.v) ELSE tw1, LAMBDA tw2 :
    With(IF Truthy(o.shortest) /\ ~high THEN Some(s.v) ELSE th1, LAMBDA th2 :
        IF e # "" THEN NoTargetsBut(e) ELSE Targets(m.v, tw2, th2)))))))))))))))

\* Normalize without the subtraction of the margins from an absolute target
Normalize_KeepsMargins(t, dim, m) ==
    IF ~Nonzero(t) THEN t
    ELSE IF IsNeg(t.v) THEN Some(Mul(Neg(dim), t.v))
    ELSE t

\* Normalize with the margins subtracted from a percentage target as well
Normalize_PercentageLessMargins(t, dim, m) ==
    IF ~Nonzero(t) THEN t
    ELSE IF IsNeg(t.v) THEN Some(RatMax(Zero, Sub(Mul(Neg(dim), t.v), Mul(m, Two))))
    ELSE Some(RatMax(Zero, Sub(t.v, Mul(m, Two))))

\* lines 98-102 (and 103-107): a target without margins
Normalize(t, dim, m) ==
    IF ~Nonzero(t) THEN t
    ELSE IF IsNeg(t.v) THEN Some(Mul(Neg(dim), t.v))
    ELSE Some(RatMax(Zero, Sub(t.v, Mul(m, Two))))

\* DefaultTargets with width and height exchanged when no target is given
DefaultTargets_Exchanged(tw, th, w, h) ==
    LET tw1 == IF ~Nonzero(tw)
               THEN IF ~Nonzero(th) THEN h ELSE Mul(Div(th.v, h), w)
               ELSE tw.v
        th1 == IF ~Nonzero(tw) /\ ~Nonzero(th) THEN w
               ELSE IF ~Nonzero(th) THEN Mul(Div(tw1, w), h)
               ELSE th.v
    IN  [twidth |-> tw1, theight |-> th1]

\* DefaultTargets without lines 115-116: a missing height stays 0
DefaultTargets_NoHeight(tw, th, w, h) ==
    LET tw1 == IF ~Nonzero(tw)
               THEN IF ~Nonzero(th) THEN w ELSE Mul(Div(th.v, h), w)
               ELSE tw.v
        th1 == IF ~Nonzero(tw) /\ ~Nonzero(th) THEN h
               ELSE IF ~Nonzero(th) THEN Zero
               ELSE th.v
    IN  [twidth |-> tw1, theight |-> th1]

\* lines 109-116: the missing targets
DefaultTargets(tw, th, w, h) ==
    LET tw1 == IF ~Nonzero(tw)
               THEN IF ~Nonzero(th) THEN w ELSE Mul(Div(th.v, h), w)
               ELSE tw.v
        th1 == IF ~Nonzero(tw) /\ ~Nonzero(th) THEN h
               ELSE IF ~Nonzero(th) THEN Mul(Div(tw1, w), h)
               ELSE th.v
    IN  [twidth |-> tw1, theight |-> th1]

\* a float division of lines 123-132 raises ZeroDivisionError
PlacementRaises(tw, th, vb) == IsZero(th) \/ IsZero(vb[4]) \/ IsZero(tw)

\* Placement with the offsets not halved
Placement_WholeOffset(tw, th, vb, m) ==
    LET wider == Less(Div(vb[3], vb[4]), Div(tw, th))
        pw == IF wider THEN Mul(Div(vb[4], th), tw) ELSE vb[3]
        ph == IF wider THEN vb[4] ELSE Mul(Div(vb[3], tw), th)
    IN  [page_width |-> pw,
         page_height |-> ph,
         offsetx |-> IF wider THEN Sub(pw, vb[3]) ELSE Zero,
         offsety |-> IF wider THEN Zero ELSE Sub(ph, vb[4]),
         vb_margin |-> Mul(Div(pw, tw), m)]

\* lines 121-132
Placement(tw, th, vb, m) ==
    LET wider == Less(Div(vb[3], vb[4]), Div(tw, th))
        pw == IF wider THEN Mul(Div(vb[4], th), tw) ELSE vb[3]
        ph == IF wider THEN vb[4] ELSE Mul(Div(vb[3], tw), th)
    IN  [page_width |-> pw,
         page_height |-> ph,
         offsetx |-> IF wider THEN Div(Sub(pw, vb[3]), Two) ELSE Zero,
         offsety |-> IF wider THEN Zero ELSE Div(Sub(ph, vb[4]), Two),
         vb_margin |-> Mul(Div(pw, tw), m)]

\* NewViewBox with the margins left out of its width and height
NewViewBox_NoMargins(vb, g) ==
    <<Sub(Sub(vb[1], g.vb_margin), g.offsetx),
      Sub(Sub(vb[2], g.vb_margin), g.offsety),
      g.page_width,
      g.page_height>>

\* line 133: the four numbers of the new viewBox
NewViewBox(vb, g) ==
    <<Sub(Sub(vb[1], g.vb_margin), g.offsetx),
      Sub(Sub(vb[2], g.vb_margin), g.offsety),
      Add(g.page_width, Mul(g.vb_margin, Two)),
      Add(g.page_height, Mul(g.vb_margin, Two))>>

\* lines 138-145: the layer with the frame path;
\* d = 'M {ox} {oy} v {oh} h {ow} v -{oh} z M {ix} {iy} h {iw} v {ih} h -{iw} z'
FrameLayer(vb, g) ==
    LET bleed == Div(RatMin(g.page_width, g.page_height), Hundred)
    IN  [tag |-> "g", label |-> "Frame",
         path |-> [style |-> "fill:#ffffff;stroke:none",
                   ox |-> Sub(Sub(Sub(Neg(vb[1]), g.vb_margin), g.offsetx), bleed),
                   oy |-> Sub(Sub(Sub(Neg(vb[2]), g.vb_margin), g.offsety), bleed),
                   ow |-> Add(g.page_width, Mul(Add(g.vb_margin, bleed), Two)),
                   oh |-> Add(g.page_height, Mul(Add(g.vb_margin, bleed), Two)),
                   ix |-> vb[1], iy |-> vb[2], iw |-> vb[3], ih |-> vb[4]]]

(***************************************************************************)
(* The state: the document, the options, the locals of resize_svg, and the *)
(* argument and result of a call of parse_length on its own.               *)
(***************************************************************************)
VARIABLES svg, options, pc, err, runs, orig,
          width, height, viewbox, margin, twidth, theight,
          page_width, page_height, offsetx, offsety, vb_margin,
          p_value, p_units, p_result

vars == <<svg, options, pc, err, runs, orig,
          width, height, viewbox, margin, twidth, theight,
          page_width, page_height, offsetx, offsety, vb_margin,
          p_value, p_units, p_result>>

locals == <<width, height, viewbox, margin, twidth, theight,
            page_width, page_height, offsetx, offsety, vb_margin>>

geometry == <<page_width, page_height, offsetx, offsety, vb_margin>>

parse_vars == <<p_value, p_units, p_result>>

\* how many times the tool is run again on its own output
MaxRuns == 1

WidthAttrs == {Raw(<<"1", "0", "0", "p", "x">>), Raw(<<"0">>)}

HeightAttrs == {Raw(<<"5", "0", "p", "x">>), Raw(<<"1", "5", "0">>)}

ViewBoxAttrs ==
    {NoViewBox,
     RawViewBox(<<"0", " ", "0", " ", "1", "0", "0", " ", "5", "0">>),
     RawViewBox(<<" ", "1", "0", ",", "2", "0", ",", " ", "1", "0", "0", " ", "1", "0", "0">>),
     RawViewBox(<<"0", " ", "0", " ", "-", "1", "0", "0", " ", "-", "5", "0">>),
     RawViewBox(<<"0", " ", "0", " ", "1", "0", "0">>),
     RawViewBox(<<"0", " ", "0", " ", "0", " ", "5", "0">>),
     RawViewBox(<<"0", " ", "0", " ", "a", " ", "5", "0">>)}

Documents ==
    [width : WidthAttrs, height : HeightAttrs, viewBox : ViewBoxAttrs, children : {<<>>}]
    \cup [width : {Absent}, height : HeightAttrs, viewBox : {NoViewBox}, children : {<<>>}]
    \cup [width : WidthAttrs, height : {Absent}, viewBox : {NoViewBox}, children : {<<>>}]

PxMargins ==
    {Missing, Raw(<<"4", "p", "t">>), Raw(<<"1", "0", "p", "x">>), Raw(<<"-", "2", "p", "x">>)}

MmMargins == {Missing, Raw(<<"5">>), Raw(<<"1", "c", "m">>)}

\* The lengths of one option set share a unit family (px, pt, pc, in, or mm, cm),
\* which keeps the exact arithmetic within TLC's 32-bit integers.
PxOptionSets ==
    [width : {Missing, Raw(<<"6", "0", "p", "x">>), Raw(<<"1", "p", "c">>),
              Raw(<<"5", "0", "%">>)},
     height : {NoneText, Raw(<<"1", "i", "n">>)},
     longest : {NoneText, Raw(<<"8", "0", "p", "x">>), Raw(<<"b", "i", "g">>)},
     shortest : {NoneText, Raw(<<"2", "0", "%">>)},
     margin : PxMargins,
     frame : BOOLEAN]

MmOptionSets ==
    [width : {Raw(<<"2", "1", "0">>)},
     height : {Raw(<<"4", "c", "m">>)},
     longest : {NoneText},
     shortest : {NoneText},
     margin : MmMargins,
     frame : BOOLEAN]
    \cup [width : {Raw(<<"2", "1", "0">>)},
          height : {NoneText},
          longest : {NoneText},
          shortest : {NoneText},
          margin : {Missing},
          frame : BOOLEAN]

OptionSets == PxOptionSets \cup MmOptionSets

NoGeometry ==
    /\ page_width = Zero
    /\ page_height = Zero
    /\ offsetx = Zero
    /\ offsety = Zero
    /\ vb_margin = Zero

NoLocals ==
    /\ width = Zero
    /\ height = Zero
    /\ viewbox = <<>>
    /\ margin = Zero
    /\ twidth = None
    /\ theight = None
    /\ NoGeometry

NoParse ==
    /\ p_value = NoneText
    /\ p_units = <<>>
    /\ p_result = Value(Zero)

\* process_stream has parsed a document and is about to call resize_svg
Init ==
    /\ svg \in Documents
    /\ options \in OptionSets
    /\ pc = "start"
    /\ err = ""
    /\ runs = 0
    /\ orig = svg
    /\ NoLocals
    /\ NoParse

\* lines 53-74
ReadSource ==
    /\ pc = "start"
    /\ options' = prepare_options(options)
    /\ \E g \in {SourceGeometry(svg)} :
           /\ width' = g.width
           /\ height' = g.height
           /\ viewbox' = g.viewbox
           /\ err' = g.err
           /\ pc' = IF g.ok THEN "options" ELSE "error"
    /\ UNCHANGED <<svg, runs, orig, margin, twidth, theight, geometry, parse_vars>>

\* lines 77-95
ReadOptions ==
    /\ pc = "options"
    /\ \E t \in {ReadTargets(options, width, height)} :
           /\ margin' = t.margin
           /\ twidth' = t.twidth
           /\ theight' = t.theight
           /\ err' = t.err
           /\ pc' = IF t.ok THEN "normalize" ELSE "error"
    /\ UNCHANGED <<svg, options, runs, orig, width, height, viewbox, geometry, parse_vars>>

\* lines 98-107
NormalizeTargets ==
    /\ pc = "normalize"
    /\ twidth' = Normalize(twidth, width, margin)
    /\ theight' = Normalize(theight, height, margin)
    /\ pc' = "defaults"
    /\ UNCHANGED <<svg, options, err, runs, orig, width, height, viewbox, margin,
                   geometry, parse_vars>>

\* lines 109-116
FillTargets ==
    /\ pc = "defaults"
    /\ \E t \in {DefaultTargets(twidth, theight, width, height)} :
           /\ twidth' = Some(t.twidth)
           /\ theight' = Some(t.theight)
    /\ pc' = "set_size"
    /\ UNCHANGED <<svg, options, err, runs, orig, width, height, viewbox, margin,
                   geometry, parse_vars>>

\* lines 119-120
SetSize ==
    /\ pc = "set_size"
    /\ svg' = [svg EXCEPT !.width = Format(Add(twidth.v, Mul(margin, Two)), <<"p", "x">>),
                          !.height = Format(Add(theight.v, Mul(margin, Two)), <<"p", "x">>)]
    /\ pc' = "set_viewbox"
    /\ UNCHANGED <<options, err, runs, orig, locals, parse_vars>>

\* lines 121-133
SetViewBox ==
    /\ pc = "set_viewbox"
    /\ IF PlacementRaises(twidth.v, theight.v, viewbox)
       THEN /\ err' = "ZeroDivisionError"
            /\ pc' = "error"
            /\ UNCHANGED <<svg, geometry>>
       ELSE \E g \in {Placement(twidth.v, theight.v, viewbox, margin)} :
                /\ page_width' = g.page_width
                /\ page_height' = g.page_height
                /\ offsetx' = g.offsetx
                /\ offsety' = g.offsety
                /\ vb_margin' = g.vb_margin
                /\ svg' = [svg EXCEPT !.viewBox = FormatViewBox(NewViewBox(viewbox, g))]
                /\ err' = err
                /\ pc' = "frame"
    /\ UNCHANGED <<options, runs, orig, width, height, viewbox, margin, twidth, theight,
                   parse_vars>>

CurrentGeometry ==
    [page_width |-> page_width, page_height |-> page_height, offsetx |-> offsetx,
     offsety |-> offsety, vb_margin |-> vb_margin]

\* lines 136-145
AddFrame ==
    /\ pc = "frame"
    /\ svg' = IF options.frame
              THEN [svg EXCEPT !.children = Append(@, FrameLayer(viewbox, CurrentGeometry))]
              ELSE svg
    /\ pc' = "done"
    /\ UNCHANGED <<options, err, runs, orig, locals, parse_vars>>

\* lines 147-155: the output is written (by default over the input) and the tool
\* is run again on it with the same options
RunAgain ==
    /\ pc = "done"
    /\ runs < MaxRuns
    /\ runs' = runs + 1
    /\ orig' = svg
    /\ pc' = "start"
    /\ width' = Zero
    /\ height' = Zero
    /\ viewbox' = <<>>
    /\ margin' = Zero
    /\ twidth' = None
    /\ theight' = None
    /\ page_width' = Zero
    /\ page_height' = Zero
    /\ offsetx' = Zero
    /\ offsety' = Zero
    /\ vb_margin' = Zero
    /\ UNCHANGED <<svg, options, err, parse_vars>>

Next ==
    \/ ReadSource
    \/ ReadOptions
    \/ NormalizeTargets
    \/ FillTargets
    \/ SetSize
    \/ SetViewBox
    \/ AddFrame
    \/ RunAgain

Spec == Init /\ [][Next]_vars

(***************************************************************************)
(* parse_length on its own: the argument is drawn from texts assembled     *)
(* from leading blanks, a sign, a number, blanks and a suffix, and from    *)
(* formatted floats; def_units is "px", "mm" or an unsupported unit.       *)
(***************************************************************************)
Leads == {<<>>, <<" ">>}

Signs == {<<>>, <<"-">>}

Numbers ==
    {<<>>, <<"1">>, <<"1", "0">>, <<"1", ".", "5">>, <<"2", "1", "0">>, <<".", "5">>,
     <<"1", ".">>, <<"5", "0">>}

Gaps == {<<>>, <<" ">>}

Suffixes ==
    UnitNames \cup {<<>>, <<"%">>, <<"e", "m">>, <<"a", "b", "c">>, <<"p">>, <<"p", "x", "x">>,
                    <<"e", "-", "0", "5">>}

ParseTexts ==
    {Raw(l \o s \o n \o g \o u) : l \in Leads, s \in Signs, n \in Numbers, g \in Gaps,
                                   u \in Suffixes}
    \cup {Format(v, u) : v \in {Rat(1, 20000), Rat(3, 2), FromInt(100), Rat(-1, 8)},
                         u \in {<<>>, <<"p", "x">>}}
    \cup {NoneText}

DefUnits == {<<"p", "x">>, <<"m", "m">>, <<"e", "m">>}

InitParse ==
    /\ svg = [width |-> Absent, height |-> Absent, viewBox |-> NoViewBox, children |-> <<>>]
    /\ options = [width |-> Missing, height |-> Missing, longest |-> Missing,
                  shortest |-> Missing, margin |-> Missing, frame |-> FALSE]
    /\ orig = svg
    /\ err = ""
    /\ runs = 0
    /\ NoLocals
    /\ pc = "parse_call"
    /\ p_value \in ParseTexts
    /\ p_units \in DefUnits
    /\ p_result = Value(Zero)

\* lines 26-50: one call of parse_length
ParseCall ==
    /\ pc = "parse_call"
    /\ p_result' = parse_length(p_value, p_units)
    /\ pc' = "parse_done"
    /\ UNCHANGED <<svg, options, err, runs, orig, locals, p_value, p_units>>

NextParse == ParseCall

SpecParse == InitParse /\ [][NextParse]_vars

(***************************************************************************)
(* C5                                                                      *)
(***************************************************************************)
KnownSuffixes == UnitNames \cup {<<"%">>}

\* what follows the number of a text that starts with a number (blanks stripped)
SuffixOf(cs) == Strip(SubSeq(cs, LengthMatch(cs).numEnd, Len(cs)))

Letters == {"a", "b", "c", "e", "i", "m", "n", "p", "t", "x"}

\* a number followed by letters that are none of the units (as in "10em", "10abc")
UnknownSuffix(t) ==
    /\ t.kind = "raw"
    /\ LengthMatch(t.chars).matched
    /\ SuffixOf(t.chars) # <<>>
    /\ \A i \in 1..Len(SuffixOf(t.chars)) : SuffixOf(t.chars)[i] \in Letters
    /\ SuffixOf(t.chars) \notin KnownSuffixes

\* C5: parse_length of a number followed by a suffix that is none of px, in, cm, mm,
\* pt, pc, % ends in an error, whatever the default unit
C5_UnknownSuffixRejected ==
    (pc = "parse_done" /\ UnknownSuffix(p_value)) => ~p_result.ok

(***************************************************************************)
(* Notions shared by the claims about resize_svg.                          *)
(***************************************************************************)
Px == <<"p", "x">>

\* the declared size and the viewBox that resize_svg has written
OutWidth == svg.width.val

OutHeight == svg.height.val

OutViewBox == svg.viewBox.vals

\* the declared size of the document the call started from
DeclaredWidth == parse_length(orig.width, Px).v

DeclaredHeight == parse_length(orig.height, Px).v

Supplied == {k \in {"width", "height", "longest", "shortest"} : Truthy(options[k])}

SameAspect(w, h, vb) == Div(w, h) = Div(vb[3], vb[4])

(***************************************************************************)
(* C1                                                                      *)
(***************************************************************************)
C1_Case == pc = "done" /\ Supplied = {} /\ IsZero(margin)

\* C1 as claimed: with no width/height/longest/shortest and margin 0 the declared
\* width and height keep the pixel value of the original declaration and the viewBox
\* is the original one (or [0, 0, width, height] when none was usable)
C1_Passthrough ==
    C1_Case => /\ OutWidth = DeclaredWidth
               /\ OutHeight = DeclaredHeight
               /\ OutViewBox = viewbox

\* C1 as amended: the declared size is the source size (the declared one when both are
\* positive, else the viewBox's), and the viewBox is unchanged exactly when its aspect
\* ratio is that of the source size; otherwise one axis is widened, centred, to the
\* aspect ratio of the source size
C1_PassthroughAmended ==
    C1_Case =>
        /\ OutWidth = width
        /\ OutHeight = height
        /\ (IsPos(DeclaredWidth) /\ IsPos(DeclaredHeight)) =>
               (OutWidth = DeclaredWidth /\ OutHeight = DeclaredHeight)
        /\ SameAspect(width, height, viewbox) <=> OutViewBox = viewbox
        /\ SameAspect(width, height, OutViewBox)
        /\ \/ OutViewBox[3] = viewbox[3] /\ OutViewBox[1] = viewbox[1]
           \/ OutViewBox[4] = viewbox[4] /\ OutViewBox[2] = viewbox[2]
        /\ Add(OutViewBox[1], Div(OutViewBox[3], Two)) = Add(viewbox[1], Div(viewbox[3], Two))
        /\ Add(OutViewBox[2], Div(OutViewBox[4], Two)) = Add(viewbox[2], Div(viewbox[4], Two))

C1_Witness ==
    /\ C1_Case
    /\ IsPos(DeclaredWidth) /\ IsPos(DeclaredHeight)
    /\ ~SameAspect(width, height, viewbox)
    /\ OutViewBox # viewbox

(***************************************************************************)
(* C2                                                                      *)
(***************************************************************************)
WidthOption == parse_length(options.width, Mm).v

C2_Case ==
    /\ pc = "done"
    /\ Supplied = {"width"}
    /\ IsPos(WidthOption)
    /\ IsPos(DeclaredWidth) /\ IsPos(DeclaredHeight)
    /\ ~IsNeg(margin)

\* C2 as claimed: with only the width option W (absolute) and margin M >= 0 the
\* declared width written is W in pixels plus 2*M
C2_WidthPlusMargins == C2_Case => OutWidth = Add(WidthOption, Mul(margin, Two))

\* C2 as amended: the declared width written is W in pixels when W exceeds 2*M (W is
\* the page width, margins included); when it does not, the content box falls back to
\* the source size and the declared width is the source width plus 2*M
C2_WidthIncludesMargins ==
    C2_Case => OutWidth = IF Less(Mul(margin, Two), WidthOption)
                          THEN WidthOption
                          ELSE Add(DeclaredWidth, Mul(margin, Two))

C2_Witness == C2_Case /\ IsPos(margin) /\ Less(Mul(margin, Two), WidthOption)

(***************************************************************************)
(* C3                                                                      *)
(***************************************************************************)
\* lines 53-120 as a function of the document and the options: the content box and
\* the declared size written
ResizeOutcome(s, o) ==
    LET g == SourceGeometry(s)
        t == ReadTargets(prepare_options(o), g.width, g.height)
        d == DefaultTargets(Normalize(t.twidth, g.width, t.margin),
                            Normalize(t.theight, g.height, t.margin), g.width, g.height)
        none == [ok |-> FALSE, margin |-> Zero, twidth |-> Zero, theight |-> Zero,
                 width |-> Zero, height |-> Zero]
    IN  IF ~g.ok THEN none
        ELSE IF ~t.ok THEN none
        ELSE [ok |-> TRUE, margin |-> t.margin, twidth |-> d.twidth, theight |-> d.theight,
              width |-> Add(d.twidth, Mul(t.margin, Two)),
              height |-> Add(d.theight, Mul(t.margin, Two))]

\* the margins of the unit family of the options
C3_Margins ==
    IF options.width \in {o.width : o \in MmOptionSets} THEN MmMargins ELSE PxMargins

C3_WithMargin(m) == ResizeOutcome(orig, [options EXCEPT !.margin = m])

\* the run with margin m differs from this run as the claim says
C3_Symmetric(m) ==
    LET r == C3_WithMargin(m)
        twoD == Mul(Sub(r.margin, margin), Two)
    IN  (r.ok /\ Less(margin, r.margin)) =>
            /\ r.width = Add(OutWidth, twoD)
            /\ r.height = Add(OutHeight, twoD)
            /\ r.twidth = twidth.v
            /\ r.theight = theight.v

\* C3 as claimed: for every document and every choice of the width/height/longest/
\* shortest options, a margin larger by D makes the declared width and height larger
\* by 2*D and leaves the content box (twidth, theight) as it is
C3_MarginSymmetry == pc = "done" => \A m \in C3_Margins : C3_Symmetric(m)

C3_OnlyPercentages == \A k \in Supplied : IsNeg(parse_length(options[k], Mm).v)

\* C3 as amended: the same, for the choices in which every supplied option of
\* width/height/longest/shortest is a percentage (or none is supplied)
C3_MarginSymmetryOfPercentages ==
    (pc = "done" /\ C3_OnlyPercentages) =>
        /\ OutWidth = C3_WithMargin(options.margin).width
        /\ OutHeight = C3_WithMargin(options.margin).height
        /\ \A m \in C3_Margins : C3_Symmetric(m)

C3_Witness ==
    /\ pc = "done"
    /\ Supplied # {}
    /\ C3_OnlyPercentages
    /\ \E m \in C3_Margins : C3_WithMargin(m).ok /\ Less(margin, C3_WithMargin(m).margin)

(***************************************************************************)
(* C4                                                                      *)
(***************************************************************************)
\* the viewBox attribute has four tokens that parse and a positive width * height
UsableViewBox(vb) ==
    LET toks == ViewBoxTokens(vb)
    IN  /\ Len(toks) = 4
        /\ \A i \in 1..4 : parse_length(toks[i], Px).ok
        /\ ProductIsPos(parse_length(toks[3], Px).v, parse_length(toks[4], Px).v)

MissingDimensions == orig.width.kind = "absent" \/ orig.height.kind = "absent"

InvalidDimensions ==
    /\ ~MissingDimensions
    /\ ~IsPos(DeclaredWidth) \/ ~IsPos(DeclaredHeight)
    /\ ~UsableViewBox(orig.viewBox)

\* C4: a call on a document without width or height, or with a non-positive width or
\* height and no usable viewBox, ends in an error; and a call that ends in an error
\* leaves the width, height and viewBox attributes and the children as they were
C4_FailureAtomic ==
    /\ (pc # "start" /\ (MissingDimensions \/ InvalidDimensions)) => pc = "error"
    /\ pc = "error" => (err # "" /\ svg = orig)

\* an option fails to parse after the source size has been read
C4_Witness == pc = "error" /\ IsPos(width) /\ err = "Unknown length format"

(***************************************************************************)
(* C6                                                                      *)
(***************************************************************************)
OptionValue(k) == parse_length(options[k], Mm).v

\* the rules in the order of the claim: the axis each one targets and its value
C6_Rules ==
    <<[on |-> "width" \in Supplied, axis |-> "w", val |-> OptionValue("width")],
      [on |-> "height" \in Supplied, axis |-> "h", val |-> OptionValue("height")],
      [on |-> "longest" \in Supplied, axis |-> IF Less(height, width) THEN "w" ELSE "h",
       val |-> OptionValue("longest")],
      [on |-> "shortest" \in Supplied, axis |-> IF Less(width, height) THEN "w" ELSE "h",
       val |-> OptionValue("shortest")]>>

\* the value of the last rule that targets the axis, None if there is none
C6_Last(axis) ==
    LET is == {i \in 1..4 : C6_Rules[i].on /\ C6_Rules[i].axis = axis}
    IN  IF is = {} THEN None
        ELSE Some(C6_Rules[CHOOSE i \in is : \A j \in is : j <= i].val)

\* C6: before normalization the target of each axis is the value of the last rule, in
\* the order width/height, longest, shortest, that targets the axis; for a square
\* source longest and shortest both target the height and shortest's value stays
C6_Precedence ==
    pc = "normalize" =>
        /\ twidth = C6_Last("w")
        /\ theight = C6_Last("h")
        /\ (width = height /\ {"longest", "shortest"} \subseteq Supplied) =>
               /\ theight = Some(OptionValue("shortest"))
               /\ twidth = IF "width" \in Supplied THEN Some(OptionValue("width")) ELSE None

\* all four options are supplied for a source that is wider than high: longest
\* replaces the width, shortest the height
C6_Witness ==
    /\ pc = "normalize"
    /\ Supplied = {"width", "height", "longest", "shortest"}
    /\ Less(height, width)
    /\ twidth = Some(OptionValue("longest"))
    /\ theight = Some(OptionValue("shortest"))

(***************************************************************************)
(* C7                                                                      *)
(***************************************************************************)
\* C7: applied again with the same options and a margin > 0 to a resized document
\* with a positive size, resize_svg does not reproduce the document: the width and
\* the height of the viewBox strictly grow (in magnitude, and so in value when they
\* are positive)
C7_MarginsCompound ==
    (pc = "done" /\ runs >= 1 /\ IsPos(width) /\ IsPos(height) /\ IsPos(margin)) =>
        /\ svg # orig
        /\ Less(RatAbs(viewbox[3]), RatAbs(OutViewBox[3]))
        /\ Less(RatAbs(viewbox[4]), RatAbs(OutViewBox[4]))
        /\ IsPos(viewbox[3]) => Less(viewbox[3], OutViewBox[3])
        /\ IsPos(viewbox[4]) => Less(viewbox[4], OutViewBox[4])

C7_Witness ==
    /\ pc = "done" /\ runs >= 1 /\ IsPos(width) /\ IsPos(height) /\ IsPos(margin)
    /\ IsPos(viewbox[3])
    /\ orig.viewBox.kind = "fmt"
    /\ viewbox = orig.viewBox.vals

(***************************************************************************)
(* C8                                                                      *)
(***************************************************************************)
LastChild == svg.children[Len(svg.children)]

C8_Bleed == Div(RatMin(page_width, page_height), Hundred)

\* C8: the outer subpath of the frame is the new viewBox grown by bleed on every side,
\* the inner subpath is the original viewBox
C8_FrameGeometry ==
    (pc = "done" /\ options.frame) =>
        LET f == LastChild.path
        IN  /\ f.ox = Sub(OutViewBox[1], C8_Bleed)
            /\ f.oy = Sub(OutViewBox[2], C8_Bleed)
            /\ f.ow = Add(page_width, Mul(Add(vb_margin, C8_Bleed), Two))
            /\ f.oh = Add(page_height, Mul(Add(vb_margin, C8_Bleed), Two))
            /\ <<f.ix, f.iy, f.iw, f.ih>> = viewbox

(***************************************************************************)
(* C9                                                                      *)
(***************************************************************************)
C9_Wider == Less(Div(viewbox[3], viewbox[4]), Div(twidth.v, theight.v))

C9_Taller == Less(Div(twidth.v, theight.v), Div(viewbox[3], viewbox[4]))

\* C9: a target box relatively wider than the viewBox gives a positive horizontal and
\* a zero vertical offset, a relatively taller one a positive vertical and a zero
\* horizontal offset
C9_Offsets ==
    pc \in {"frame", "done"} =>
        /\ C9_Wider => (IsPos(offsetx) /\ IsZero(offsety))
        /\ C9_Taller => (IsPos(offsety) /\ IsZero(offsetx))

(***************************************************************************)
(* C10                                                                     *)
(***************************************************************************)
C10_Case ==
    /\ pc = "done"
    /\ IsPos(width) /\ IsPos(height)
    /\ IsPos(viewbox[3]) /\ IsPos(viewbox[4])
    /\ ~IsNeg(margin)

C10_Left == Sub(viewbox[1], OutViewBox[1])

C10_Right == Sub(Add(OutViewBox[1], OutViewBox[3]), Add(viewbox[1], viewbox[3]))

C10_Top == Sub(viewbox[2], OutViewBox[2])

C10_Bottom == Sub(Add(OutViewBox[2], OutViewBox[4]), Add(viewbox[2], viewbox[4]))

\* C10: the new viewBox has the aspect ratio of the declared page, and the original
\* viewBox lies inside it with equal slack left and right and equal slack top and
\* bottom
C10_UniformScaling ==
    C10_Case =>
        /\ Div(OutViewBox[3], OutViewBox[4]) = Div(OutWidth, OutHeight)
        /\ ~IsNeg(C10_Left) /\ C10_Left = C10_Right
        /\ ~IsNeg(C10_Top) /\ C10_Top = C10_Bottom

C10_Witness == C10_Case /\ IsPos(margin) /\ IsPos(offsetx) /\ IsPos(C10_Left)

====
